---- MODULE Spec2Model ----
(***************************************************************************)
(* A model of the APL runtime: the variable store (apl/var.go) with the    *)
(* environment chain, the index origin, the print precision, the output    *)
(* sink and the package map; the primitives interval, indexof and          *)
(* membership; and the arithmetic of the big Float numbers.                *)
(* Spec runs the operations on ordinary names and on alpha, SysSpec the    *)
(* operations on the system names and on package variables, PrimSpec the   *)
(* primitives on operands fixed at the start, FloatSpec the methods of     *)
(* Float on the big.Float objects of the heap, PowSpec these methods and   *)
(* the dyadic power.  XgoSpec runs Keys, At and Set on host values of the  *)
(* xgo package, TwoSpec assignments and lookups on a second runtime,       *)
(* VarsSpec the listing of the variables, LineSpec the clauses of a line   *)
(* one by one, LateSpec the calls of a function variable that is rebound.  *)
(*                                                                         *)
(* A name is a sequence of runes.  The APL glyphs are written in ASCII:    *)
(* "quad" is the quad glyph, "alpha" and "omega" the lambda arguments,     *)
(* "arrow" the package arrow and "plus" a glyph no name may contain.       *)
(***************************************************************************)
EXTENDS Integers, Sequences, FiniteSets, TLC

VARIABLES envs, Origin, PP, stdout, pkg, heap, other, line, res

vars == <<envs, Origin, PP, stdout, pkg, heap, other, line, res>>

\* Bounds of the model.
MaxDepth == 2
MaxOut == 1

----------------------------------------------------------------------------
\* Values.

AplInt(n) == [kind |-> "Int", n |-> n, id |-> <<>>]
Bool(b) == [kind |-> "Bool", n |-> IF b THEN 1 ELSE 0, id |-> <<>>]
Fn(k) == [kind |-> "Function", n |-> k, id |-> <<>>]
Identifier(name) == [kind |-> "Identifier", n |-> 0, id |-> name]
nil == [kind |-> "nil", n |-> 0, id |-> <<>>]

IsNumber(v) == v.kind \in {"Int", "Bool"}
IsFunction(v) == v.kind = "Function"

\* Tower.ToBool: a number converts to a boolean iff it is 0 or 1.
ToBool(n) == [ok |-> n.n \in {0, 1}, b |-> n.n = 1]

\* Number.ToIndex: integers and booleans convert to an index.
ToIndex(n) == [ok |-> n.kind \in {"Int", "Bool"}, i |-> n.n]

\* The primitive functions + (1) and - (2), monadic when l is nil.
PrimCall(k, l, r) ==
    IF k = 1
    THEN (IF l = nil THEN AplInt(r.n) ELSE AplInt(l.n + r.n))
    ELSE (IF l = nil THEN AplInt(0 - r.n) ELSE AplInt(l.n - r.n))

\* Value.String for the values of the model; negative numbers print with
\* the high minus.
Digits == <<"0", "1", "2", "3", "4">>
String(v) ==
    CASE v.kind \in {"Int", "Bool"} ->
           IF v.n < 0 THEN "~" \o Digits[1 - v.n] ELSE Digits[v.n + 1]
      [] v.kind = "Function" -> (IF v.n = 1 THEN "+" ELSE "-")
      [] OTHER -> "?"

----------------------------------------------------------------------------
\* Runes and names.

Upper == {"A", "I", "O", "P"}
Lower == {"a", "f", "i", "o", "p"}
Digit == {"1"}
Special == {"quad", "alpha", "omega"}

ToLowerRune(r) ==
    CASE r = "A" -> "a" [] r = "I" -> "i" [] r = "O" -> "o" [] r = "P" -> "p"
      [] OTHER -> r

ToLower(s) == [i \in 1..Len(s) |-> ToLowerRune(s[i])]

\* strings.Index(s, "arrow"): the 1-based position of the first arrow, 0 if
\* there is none.
RECURSIVE IndexFrom(_, _, _)
IndexFrom(s, r, i) ==
    IF i > Len(s) THEN 0
    ELSE IF s[i] = r THEN i
    ELSE IndexFrom(s, r, i + 1)

Index(s, r) == IndexFrom(s, r, 1)

\* scan.AllowedInVarname.
AllowedInVarname(r, first) ==
    \/ first /\ r \in Special
    \/ r \in Upper \cup Lower
    \/ ~first /\ r \in Digit

isVarname(s) ==
    IF s = <<>> THEN [ok |-> FALSE, isfunc |-> FALSE]
    ELSE LET n == Index(s, "arrow")
             t == IF n # 0 THEN SubSeq(s, n + 1, Len(s)) ELSE s
         IN  IF \E i \in 1..Len(t) : ~AllowedInVarname(t[i], i = 1)
             THEN [ok |-> FALSE, isfunc |-> FALSE]
             ELSE LET upper == \E i \in 1..Len(t) :
                                  \/ i = 1 /\ t[i] \in Upper
                                  \/ t[i] \in Special
                  IN  [ok |-> TRUE, isfunc |-> ~upper]

QuadName == <<"quad">>
IOName == <<"quad", "I", "O">>
PPName == <<"quad", "P", "P">>
AlphaName == <<"alpha">>
OmegaName == <<"omega">>

----------------------------------------------------------------------------
\* The environment chain.  envs[1] is the root environment, envs[i - 1] is
\* the parent of envs[i] and envs[Len(envs)] is the current environment
\* a.env.  An environment's vars map is a function whose domain is the set
\* of names bound in it.

Cur(es) == Len(es)

Bound(es, e, name) == name \in DOMAIN es[e]

\* A store that keeps the binding a name already has.
Store_KeepFirst(es, e, name, v) == [es EXCEPT ![e] = es[e] @@ (name :> v)]

\* env.vars[name] = v
Store(es, e, name, v) == [es EXCEPT ![e] = (name :> v) @@ es[e]]

\* Apl.packageVar
packageVar(pk, name) ==
    LET idx == Index(name, "arrow")
    IN  IF idx = 0 THEN nil
        ELSE LET pkgname == SubSeq(name, 1, idx - 1)
                 varname == SubSeq(name, idx + 1, Len(name))
             IN  IF pkgname \notin DOMAIN pk THEN nil
                 ELSE IF varname \in DOMAIN pk[pkgname]
                      THEN pk[pkgname][varname]
                      ELSE nil

\* A lookup that never follows the parent pointer.
Walk_NoParent(es, e, name) ==
    IF Bound(es, e, name) THEN [v |-> es[e][name], env |-> e]
    ELSE [v |-> nil, env |-> 0]

\* The loop of Apl.LookupEnv: from environment e towards the root.
RECURSIVE Walk(_, _, _)
Walk(es, e, name) ==
    IF Bound(es, e, name) THEN [v |-> es[e][name], env |-> e]
    ELSE IF e = 1 THEN [v |-> nil, env |-> 0]
    ELSE Walk(es, e - 1, name)

\* A lookup that has no branch for the index origin: the name is searched
\* in the environments like any other.
LookupEnvIn_NoOrigin(es, org, pp, pk, name) ==
    IF name = PPName THEN [v |-> AplInt(pp), env |-> 0]
    ELSE Walk(es, Cur(es), name)

\* Apl.LookupEnv on the runtime (es, org, pp, pk); env 0 is the nil pointer.
LookupEnvIn(es, org, pp, pk, name) ==
    IF name = IOName THEN [v |-> AplInt(org), env |-> 0]
    ELSE IF name = PPName THEN [v |-> AplInt(pp), env |-> 0]
    ELSE LET idx == Index(name, "arrow")
         IN  IF idx # 0
             THEN LET prefix == SubSeq(name, 1, idx - 1)
                  IN  IF ToLower(prefix) = prefix
                      THEN [v |-> packageVar(pk, name), env |-> 0]
                      ELSE [v |-> nil, env |-> 0]
             ELSE Walk(es, Cur(es), name)

LookupEnv(name) == LookupEnvIn(envs, Origin, PP, pkg, name)

\* Apl.Lookup
Lookup(name) == LookupEnv(name).v

----------------------------------------------------------------------------
\* Apl.AssignEnv, in the order of the code.

\* Apl.SetPP: the print precision is set from a number that is an index.
SetPP(v) ==
    IF IsNumber(v) /\ ToIndex(v).ok /\ ToIndex(v).i >= 0
    THEN [err |-> "", pp |-> ToIndex(v).i]
    ELSE [err |-> "cannot set print precision", pp |-> PP]

\* An origin taken from the number itself, without the boolean conversion.
AssignOrigin_NoBoolCheck(v) ==
    IF IsNumber(v)
    THEN [err |-> "", origin |-> v.n]
    ELSE [err |-> "cannot set index origin", origin |-> Origin]

\* An origin that is cleared before the number is looked at.
AssignOrigin_ClearedFirst(v) ==
    IF IsNumber(v) /\ ToBool(v).ok
    THEN [err |-> "", origin |-> IF ToBool(v).b THEN 1 ELSE 0]
    ELSE [err |-> "cannot set index origin", origin |-> 0]

\* The branch of the name quad-IO: the origin is set from a number that
\* converts to a boolean, and is left alone otherwise.
AssignOrigin(v) ==
    IF IsNumber(v) /\ ToBool(v).ok
    THEN [err |-> "", origin |-> IF ToBool(v).b THEN 1 ELSE 0]
    ELSE [err |-> "cannot set index origin", origin |-> Origin]

\* A naming law that only guards the lowercase names.
NamingLaw_OnlyLower(v, isfunc) ==
    IF ~IsFunction(v) /\ isfunc
    THEN "only functions can be assigned to lowercase variables"
    ELSE ""

\* A naming law that only guards the uppercase names.
NamingLaw_OnlyUpper(v, isfunc) ==
    IF IsFunction(v) /\ ~isfunc
    THEN "cannot assign a function to an uppercase variable"
    ELSE ""

\* The naming law: functions go to lowercase names, other values to
\* uppercase names.
NamingLaw(v, isfunc) ==
    IF IsFunction(v) /\ ~isfunc
    THEN "cannot assign a function to an uppercase variable"
    ELSE IF ~IsFunction(v) /\ isfunc
         THEN "only functions can be assigned to lowercase variables"
         ELSE ""

\* An assignment that writes into the innermost environment that already
\* binds the name.
TargetEnv_Innermost(name, e) ==
    IF e # 0 THEN e
    ELSE IF Walk(envs, Cur(envs), name).env # 0
         THEN Walk(envs, Cur(envs), name).env
         ELSE Cur(envs)

\* An assignment that writes into the root environment.
TargetEnv_Root(name, e) == IF e = 0 THEN 1 ELSE e

\* The environment written: the given one, or a.env when it is nil (0).
TargetEnv(name, e) == IF e = 0 THEN Cur(envs) ELSE e

\* An assignment that overwrites a given left argument.
KeepsAlpha_Never(name, e) == FALSE

\* The default left argument: a bound alpha is not overwritten.
KeepsAlpha(name, e) == name = AlphaName /\ Bound(envs, e, AlphaName)

\* The state a call leaves behind, and its error ("" is the nil error).
Unchanged(err) ==
    [err |-> err, envs |-> envs, Origin |-> Origin, PP |-> PP,
     stdout |-> stdout]

\* A print that leaves the line open.
PrintLine_NoNewline(v) == Append(stdout, String(v))

\* fmt.Fprintf(a.stdout, "%s\n", v.String(a.Format))
PrintLine(v) == Append(stdout, String(v) \o "\n")

AssignEnv(name, v, env) ==
    IF ~isVarname(name).ok
    THEN Unchanged("variable name is not allowed")
    ELSE IF Index(name, "arrow") # 0
    THEN Unchanged("cannot assign to a package variable")
    ELSE IF name = QuadName
    THEN [Unchanged("") EXCEPT !.stdout = PrintLine(v)]
    ELSE IF name = IOName
    THEN [Unchanged(AssignOrigin(v).err) EXCEPT
             !.Origin = AssignOrigin(v).origin]
    ELSE IF name = PPName
    THEN [Unchanged(SetPP(v).err) EXCEPT !.PP = SetPP(v).pp]
    ELSE IF NamingLaw(v, isVarname(name).isfunc) # ""
    THEN Unchanged(NamingLaw(v, isVarname(name).isfunc))
    ELSE LET e == TargetEnv(name, env)
         IN  IF KeepsAlpha(name, e)
             THEN Unchanged("")
             ELSE [Unchanged("") EXCEPT !.envs = Store(envs, e, name, v)]

\* Apl.Assign
Assign(name, v) == AssignEnv(name, v, 0)

\* An evaluation that hands the nil of the lookup on.
numVarEval_Nil(name) == [v |-> Lookup(name), err |-> ""]

\* numVar.Eval
numVarEval(name) ==
    LET x == Lookup(name)
    IN  IF x = nil THEN [v |-> Identifier(name), err |-> ""]
        ELSE [v |-> x, err |-> ""]

\* A call that is bound to the primitive + once and for all.
fnVarCall_Early(f, l, r) ==
    LET x == Lookup(f)
    IN  IF x = nil THEN [v |-> Identifier(f), err |-> ""]
        ELSE [v |-> PrimCall(1, l, r), err |-> ""]

\* A call that reports an undeclared function.
fnVarCall_NameError(f, l, r) ==
    LET x == Lookup(f)
    IN  IF x = nil THEN [v |-> nil, err |-> "undeclared function"]
        ELSE IF ~IsFunction(x)
        THEN [v |-> nil, err |-> "value in function variable is not a function"]
        ELSE [v |-> PrimCall(x.n, l, r), err |-> ""]

\* fnVar.Call
fnVarCall(f, l, r) ==
    LET x == Lookup(f)
    IN  IF x = nil THEN [v |-> Identifier(f), err |-> ""]
        ELSE IF ~IsFunction(x)
        THEN [v |-> nil, err |-> "value in function variable is not a function"]
        ELSE [v |-> PrimCall(x.n, l, r), err |-> ""]

----------------------------------------------------------------------------
\* The inputs of the operations.

NameA == <<"A">>
NameF == <<"f">>
PkgNameA == <<"p", "arrow", "A">>
UpperPkgNameA == <<"P", "arrow", "A">>
BadName == <<"A", "plus">>
EmptyName == <<>>

\* The variables specification: assignments of the ordinary names and of
\* alpha, each with values that succeed and a value that fails.
ValuesFor(name) ==
    CASE name = NameA -> {AplInt(1), AplInt(2), Fn(1)}
      [] name = NameF -> {Fn(1), AplInt(1)}
      [] OTHER -> {AplInt(2), Fn(1)}

AssignNames == {NameA, NameF, AlphaName}

\* The assignments tried with an environment given by the caller.
EnvValuesFor(name) ==
    CASE name = NameA -> {AplInt(1), AplInt(2)}
      [] name = NameF -> {Fn(1)}
      [] OTHER -> {AplInt(2)}

LookupNames == {NameA, NameF, AlphaName}

\* The system specification: assignments of the system names, of package
\* variables and of names that are not allowed, and one ordinary name.
SysValuesFor(name) ==
    CASE name = QuadName -> {AplInt(1), Fn(1)}
      [] name = IOName -> {AplInt(0), Bool(TRUE), AplInt(2), Fn(1)}
      [] name = PPName -> {AplInt(2), Fn(1)}
      [] name = NameA -> {AplInt(1), Fn(1)}
      [] name = UpperPkgNameA -> {Fn(1)}
      [] OTHER -> {AplInt(1)}

SysAssignNames ==
    {QuadName, IOName, PPName, NameA, NameF, PkgNameA, UpperPkgNameA,
     BadName, EmptyName}

SysEnvValues == {AplInt(0), Bool(TRUE)}

SysLookupNames == {IOName, PPName, NameA, PkgNameA, UpperPkgNameA}

LeftArgs == {nil, AplInt(1)}
RightArgs == {AplInt(0)}

Result(op, name, larg, arg, env, val, err) ==
    [op |-> op, name |-> name, larg |-> larg, arg |-> arg, env |-> env,
     val |-> val, err |-> err]

----------------------------------------------------------------------------
\* The runtime after New: one empty root environment, index origin 1, and
\* one registered package p with the variable A.

\* A second runtime, as New returns it.
NewRuntime ==
    [envs |-> << <<>> >>, Origin |-> 1, PP |-> 0, stdout |-> <<>>,
     pkg |-> (<<"p">> :> (<<"A">> :> AplInt(2)))]

Init ==
    /\ envs = << <<>> >>
    /\ Origin = 1
    /\ PP = 0
    /\ stdout = <<>>
    /\ pkg = (<<"p">> :> (NameA :> AplInt(2)))
    /\ heap = <<>>
    /\ other = NewRuntime
    /\ line = <<>>
    /\ res = Result("New", <<>>, nil, nil, 0, nil, "")

\* A call of AssignEnv(name, v, env) leaves the state out behind.
Apply(out) ==
    /\ envs' = out.envs
    /\ Origin' = out.Origin
    /\ PP' = out.PP
    /\ stdout' = out.stdout
    /\ UNCHANGED <<pkg, heap, other, line>>

DoAssign(name, v) ==
    /\ name = QuadName => Len(stdout) < MaxOut
    /\ Apply(Assign(name, v))
    /\ res' = Result("Assign", name, nil, v, 0, nil, Assign(name, v).err)

DoAssignEnv(name, v, env) ==
    /\ name = QuadName => Len(stdout) < MaxOut
    /\ env \in 1..Len(envs)
    /\ Apply(AssignEnv(name, v, env))
    /\ res' = Result("AssignEnv", name, nil, v, env, nil,
                     AssignEnv(name, v, env).err)

DoLookupEnv(name) ==
    /\ res' = Result("LookupEnv", name, nil, nil, LookupEnv(name).env,
                     LookupEnv(name).v, "")
    /\ UNCHANGED <<envs, Origin, PP, stdout, pkg, heap, other, line>>

DoNumVarEval(name) ==
    /\ res' = Result("numVar.Eval", name, nil, nil, 0, numVarEval(name).v,
                     numVarEval(name).err)
    /\ UNCHANGED <<envs, Origin, PP, stdout, pkg, heap, other, line>>

DoFnVarCall(f, l, r) ==
    /\ res' = Result("fnVar.Call", f, l, r, 0, fnVarCall(f, l, r).v,
                     fnVarCall(f, l, r).err)
    /\ UNCHANGED <<envs, Origin, PP, stdout, pkg, heap, other, line>>

\* A lambda is called: a fresh environment whose parent is the current one
\* becomes current, with omega bound to r and alpha to l if it is given.
LambdaCall(l, r) ==
    /\ Len(envs) < MaxDepth
    /\ envs' = Append(envs, IF l = nil THEN (OmegaName :> r)
                            ELSE (OmegaName :> r) @@ (AlphaName :> l))
    /\ res' = Result("lambda.Call", <<>>, l, r, 0, nil, "")
    /\ UNCHANGED <<Origin, PP, stdout, pkg, heap, other, line>>

\* The lambda returns: its environment is dropped, the parent is current.
LambdaReturn ==
    /\ Len(envs) > 1
    /\ envs' = SubSeq(envs, 1, Len(envs) - 1)
    /\ res' = Result("lambda.Return", <<>>, nil, nil, 0, nil, "")
    /\ UNCHANGED <<Origin, PP, stdout, pkg, heap, other, line>>

\* The operations on variables: ordinary names, alpha and lambdas.
Next ==
    \/ \E name \in AssignNames : \E v \in ValuesFor(name) :
          DoAssign(name, v)
    \/ \E name \in AssignNames : \E v \in EnvValuesFor(name) :
          \E env \in 1..MaxDepth : DoAssignEnv(name, v, env)
    \/ \E name \in LookupNames : DoLookupEnv(name)
    \/ \E name \in {NameA, AlphaName} : DoNumVarEval(name)
    \/ \E l \in LeftArgs : \E r \in RightArgs : DoFnVarCall(NameF, l, r)
    \/ \E l \in LeftArgs : \E r \in RightArgs : LambdaCall(l, r)
    \/ LambdaReturn

Spec == Init /\ [][Next]_vars

\* The operations on the system names, with a lambda to change the current
\* environment.
SysNext ==
    \/ \E name \in SysAssignNames : \E v \in SysValuesFor(name) :
          DoAssign(name, v)
    \/ \E v \in SysEnvValues : \E env \in 1..MaxDepth :
          DoAssignEnv(IOName, v, env)
    \/ \E name \in SysLookupNames : DoLookupEnv(name)
    \/ \E r \in RightArgs : LambdaCall(nil, r)
    \/ LambdaReturn

SysSpec == Init /\ [][SysNext]_vars

----------------------------------------------------------------------------
\* Arrays and the primitives interval, indexof and membership.

\* The most elements an operand array has.
MaxLen == 2

AplString(s) == [kind |-> "String", n |-> 0, id |-> s]
AplIndex(i) == [kind |-> "Index", n |-> i, id |-> <<>>]

\* An array is its shape Dims and its elements in row-major order; the
\* elements of an IndexArray are plain integers.
EmptyArray == [kind |-> "EmptyArray", Dims |-> <<0>>, Values |-> <<>>]
IndexArray(ints, dims) ==
    [kind |-> "IndexArray", Dims |-> dims, Values |-> ints]
GeneralArray(vals, dims) ==
    [kind |-> "GeneralArray", Dims |-> dims, Values |-> vals]

IsArray(v) == v.kind \in {"EmptyArray", "IndexArray", "GeneralArray"}

RECURSIVE Product(_)
Product(dims) ==
    IF dims = <<>> THEN 1 ELSE Head(dims) * Product(Tail(dims))

\* apl.ArraySize: the product of the shape.
ArraySize(ar) == Product(ar.Dims)

\* apl.CopyShape
CopyShape(ar) == ar.Dims

\* Array.At for the 0-based position i.
At(ar, i) == ar.Values[i + 1]

\* The runtime as a primitive reads it.
Apl == [Origin |-> Origin]

\* Tower.SameType: the boolean is the less general kind.
SameType(x, y) ==
    IF x.kind = y.kind THEN <<x, y>> ELSE <<AplInt(x.n), AplInt(y.n)>>

isEqual(a, x, y) ==
    IF x = y THEN TRUE
    ELSE IF ~IsNumber(x) \/ ~IsNumber(y) THEN FALSE
    ELSE SameType(x, y)[1] = SameType(x, y)[2]

\* An index generator that always counts from 1.
interval_OneBased(a, R) ==
    LET n == R.n
    IN  IF n < 0 THEN [v |-> nil, err |-> "iota: L is negative"]
        ELSE IF n = 0 THEN [v |-> EmptyArray, err |-> ""]
        ELSE [v |-> IndexArray([i \in 1..n |-> i], <<n>>), err |-> ""]

\* An index generator that refuses 0.
interval_NoEmpty(a, R) ==
    LET n == R.n
    IN  IF n <= 0 THEN [v |-> nil, err |-> "iota: L is negative"]
        ELSE [v |-> IndexArray([i \in 1..n |-> a.Origin + (i - 1)], <<n>>),
              err |-> ""]

interval(a, R) ==
    LET n == R.n
    IN  IF n < 0 THEN [v |-> nil, err |-> "iota: L is negative"]
        ELSE IF n = 0 THEN [v |-> EmptyArray, err |-> ""]
        ELSE [v |-> IndexArray([i \in 1..n |-> a.Origin + (i - 1)], <<n>>),
              err |-> ""]

\* The closure index of indexof, from position i on.
RECURSIVE index(_, _, _, _)
index(a, x, al, i) ==
    IF i >= ArraySize(al) THEN ArraySize(al) + a.Origin
    ELSE IF isEqual(a, x, At(al, i)) THEN i + a.Origin
    ELSE index(a, x, al, i + 1)

\* An index-of that returns its result as a vector.
indexof_Flat(a, L, R) ==
    [v |-> IndexArray([k \in 1..ArraySize(R) |-> index(a, At(R, k - 1), L, 0)],
                      <<ArraySize(R)>>),
     err |-> ""]

\* An index-of that reports 0 for an item that is not found.
indexof_NotFoundZero(a, L, R) ==
    [v |-> IndexArray([k \in 1..ArraySize(R) |->
                          IF index(a, At(R, k - 1), L, 0)
                                 = ArraySize(L) + a.Origin
                          THEN 0 ELSE index(a, At(R, k - 1), L, 0)],
                      CopyShape(R)),
     err |-> ""]

indexof(a, L, R) ==
    [v |-> IndexArray([k \in 1..ArraySize(R) |-> index(a, At(R, k - 1), L, 0)],
                      CopyShape(R)),
     err |-> ""]

\* The inner loop of membership: is l equal to an element of ar from
\* position i on.
RECURSIVE found(_, _, _, _)
found(a, l, ar, i) ==
    IF i >= ArraySize(ar) THEN FALSE
    ELSE IF isEqual(a, l, At(ar, i)) THEN TRUE
    ELSE found(a, l, ar, i + 1)

\* A membership that looks at the first element of R only.
membership_FirstOnly(a, L, R) ==
    LET ar == IF IsArray(R) THEN R ELSE GeneralArray(<<R>>, <<1>>)
        hit(l) == ArraySize(ar) > 0 /\ isEqual(a, l, At(ar, 0))
    IN  IF ~IsArray(L) THEN [v |-> Bool(hit(L)), err |-> ""]
        ELSE [v |-> IndexArray([k \in 1..ArraySize(L) |->
                                   IF hit(At(L, k - 1)) THEN 1 ELSE 0],
                               CopyShape(L)),
              err |-> ""]

membership(a, L, R) ==
    LET ar == IF IsArray(R) THEN R ELSE GeneralArray(<<R>>, <<1>>)
    IN  IF ~IsArray(L) THEN [v |-> Bool(found(a, L, ar, 0)), err |-> ""]
        ELSE [v |-> IndexArray([k \in 1..ArraySize(L) |->
                                   IF found(a, At(L, k - 1), ar, 0)
                                   THEN 1 ELSE 0],
                               CopyShape(L)),
              err |-> ""]

\* The domain adapters (domain package).  A child adapter is named by a
\* sequence: <<>> is the nil child, <<"ToIndex">> the adapter ToIndex(nil).
NoChild == <<>>
IndexChild == <<"ToIndex">>

\* index.To: an index, or a number that converts to an index, is accepted
\* as an index.
indexTo(a, V) ==
    IF V.kind = "Index" THEN [v |-> V, ok |-> TRUE]
    ELSE IF IsNumber(V) /\ ToIndex(V).ok
    THEN [v |-> AplIndex(ToIndex(V).i), ok |-> TRUE]
    ELSE [v |-> V, ok |-> FALSE]

\* propagate: without a child the value is accepted as it is, else the
\* child decides.
propagate(a, v, child) ==
    IF child = NoChild THEN [v |-> v, ok |-> TRUE] ELSE indexTo(a, v)

ToScalar(child) == [child |-> child, convert |-> TRUE]
IsScalar(child) == [child |-> child, convert |-> FALSE]

\* A scalar adapter that takes the first element of any array that has one.
scalarTo_FirstElement(s, a, V) ==
    IF IsArray(V)
    THEN IF ~s.convert \/ ArraySize(V) = 0 THEN [v |-> V, ok |-> FALSE]
         ELSE propagate(a, At(V, 0), s.child)
    ELSE propagate(a, V, s.child)

\* A scalar adapter that converts whatever its convert flag says.
scalarTo_AlwaysConvert(s, a, V) ==
    IF IsArray(V)
    THEN IF ArraySize(V) # 1 THEN [v |-> V, ok |-> FALSE]
         ELSE propagate(a, At(V, 0), s.child)
    ELSE propagate(a, V, s.child)

\* scalar.To
scalarTo(s, a, V) ==
    IF IsArray(V)
    THEN IF ~s.convert THEN [v |-> V, ok |-> FALSE]
         ELSE IF ArraySize(V) # 1 THEN [v |-> V, ok |-> FALSE]
         ELSE propagate(a, At(V, 0), s.child)
    ELSE propagate(a, V, s.child)

\* The operands of the primitives: scalars, vectors and one-row matrices of
\* at most MaxLen elements.
Elems == {AplInt(1), AplInt(2), Bool(TRUE), AplString(<<"a">>)}
Vectors ==
    {EmptyArray} \cup
    UNION {{GeneralArray(vals, <<n>>) : vals \in [1..n -> Elems]} :
              n \in 1..MaxLen}
Matrices ==
    UNION {{GeneralArray(vals, <<1, n>>) : vals \in [1..n -> Elems]} :
              n \in 1..MaxLen}
Arrays == Vectors \cup Matrices
IndexArgs == {AplIndex(n) : n \in -1..MaxLen}

\* The runtime under either index origin, about to apply a primitive to
\* the operands kept in res.
PrimInit ==
    /\ envs = << <<>> >>
    /\ Origin \in {0, 1}
    /\ PP = 0
    /\ stdout = <<>>
    /\ pkg = (<<"p">> :> (NameA :> AplInt(2)))
    /\ heap = <<>>
    /\ other = NewRuntime
    /\ line = <<>>
    /\ \E L \in Elems \cup Arrays \cup {nil} :
          \E R \in (IF L = nil THEN IndexArgs ELSE Elems \cup Arrays) :
             res = Result("New", <<>>, L, R, 0, nil, "")

DoInterval ==
    /\ res.arg.kind = "Index"
    /\ res' = Result("interval", <<>>, res.larg, res.arg, 0,
                     interval(Apl, res.arg).v, interval(Apl, res.arg).err)
    /\ UNCHANGED <<envs, Origin, PP, stdout, pkg, heap, other, line>>

\* The domain of indexof: L is a vector and R an array.
DoIndexof ==
    /\ IsArray(res.larg) /\ Len(res.larg.Dims) = 1
    /\ IsArray(res.arg)
    /\ res' = Result("indexof", <<>>, res.larg, res.arg, 0,
                     indexof(Apl, res.larg, res.arg).v,
                     indexof(Apl, res.larg, res.arg).err)
    /\ UNCHANGED <<envs, Origin, PP, stdout, pkg, heap, other, line>>

DoMembership ==
    /\ res.larg # nil
    /\ res' = Result("membership", <<>>, res.larg, res.arg, 0,
                     membership(Apl, res.larg, res.arg).v,
                     membership(Apl, res.larg, res.arg).err)
    /\ UNCHANGED <<envs, Origin, PP, stdout, pkg, heap, other, line>>

\* The adapter ToScalar(child) is applied to the right operand.
DoToScalar(child) ==
    /\ res' = Result("ToScalar", child, res.larg, res.arg, 0,
                     scalarTo(ToScalar(child), Apl, res.arg).v,
                     IF scalarTo(ToScalar(child), Apl, res.arg).ok
                     THEN "" ELSE "domain not matched")
    /\ UNCHANGED <<envs, Origin, PP, stdout, pkg, heap, other, line>>

\* The adapter IsScalar(child) is applied to the right operand.
DoIsScalar(child) ==
    /\ res' = Result("IsScalar", child, res.larg, res.arg, 0,
                     scalarTo(IsScalar(child), Apl, res.arg).v,
                     IF scalarTo(IsScalar(child), Apl, res.arg).ok
                     THEN "" ELSE "domain not matched")
    /\ UNCHANGED <<envs, Origin, PP, stdout, pkg, heap, other, line>>

PrimNext ==
    \/ DoInterval
    \/ DoIndexof
    \/ DoMembership
    \/ \E child \in {NoChild, IndexChild} : DoToScalar(child)
    \/ \E child \in {NoChild, IndexChild} : DoIsScalar(child)

PrimSpec == PrimInit /\ [][PrimNext]_vars

----------------------------------------------------------------------------
\* The big Float numbers (big/float.go).  A Float holds a pointer to a
\* big.Float; heap[p] is the big.Float at the address p.  A finite
\* big.Float is kept in quarters: q stands for the number q/4.

\* The largest finite big.Float is MaxQ quarters.
MaxQ == 16

BigFloat(p) == [kind |-> "Float", n |-> p, id |-> <<>>]
numbersInf == [kind |-> "numbers.Inf", n |-> 0, id |-> <<>>]
numbersNaN == [kind |-> "numbers.NaN", n |-> 0, id |-> <<>>]

Fin(q) == [inf |-> 0, q |-> q]
Infinite(s) == [inf |-> s, q |-> 0]

Abs(i) == IF i < 0 THEN 0 - i ELSE i

\* big.Float.IsInf, Sign, Neg and SetInt64.
IsInf(x) == x.inf # 0
Sign(x) ==
    IF x.inf # 0 THEN x.inf
    ELSE IF x.q > 0 THEN 1 ELSE IF x.q < 0 THEN 0 - 1 ELSE 0
Neg(x) == [inf |-> 0 - x.inf, q |-> 0 - x.q]
SetInt64(i) == Fin(4 * i)

\* z.Add(x, y), z.Sub(x, y), z.Mul(x, y) and z.Quo(x, y) on finite numbers
\* whose result is a whole number of quarters.
Arith(op, x, y) ==
    CASE op = "Add" -> Fin(x.q + y.q)
      [] op = "Sub" -> Fin(x.q - y.q)
      [] op = "Mul" -> Fin(Sign(x) * Sign(y) * ((Abs(x.q) * Abs(y.q)) \div 4))
      [] op = "Quo" -> Fin(Sign(x) * Sign(y) * ((4 * Abs(x.q)) \div Abs(y.q)))

\* The operands Arith is exact on.
Exact(op, x, y) ==
    /\ ~IsInf(x) /\ ~IsInf(y)
    /\ op = "Mul" => (Abs(x.q) * Abs(y.q)) % 4 = 0
    /\ op = "Quo" => y.q # 0 /\ (4 * Abs(x.q)) % Abs(y.q) = 0

\* z.Copy(x) sets the big.Float at z to the one at x; the call returns z.
Copy(h, z, x) == [h EXCEPT ![z] = h[x]]

\* Float.cpy: f.Float.Copy(f.Float) copies the big.Float onto itself and
\* returns the pointer of f.
cpy(h, f) == [p |-> f.n, h |-> Copy(h, f.n, f.n)]

\* The arithmetic methods: the value returned, ok, and the heap they leave.
Add(h, f) == [v |-> f, ok |-> TRUE, h |-> h]

Add2(h, f, R) ==
    LET z == cpy(h, f)
    IN  [v |-> BigFloat(z.p), ok |-> TRUE,
         h |-> [z.h EXCEPT ![z.p] = Arith("Add", z.h[z.p], z.h[R.n])]]

Sub(h, f) ==
    [v |-> BigFloat(f.n), ok |-> TRUE, h |-> [h EXCEPT ![f.n] = Neg(h[f.n])]]

Sub2(h, f, R) ==
    LET z == cpy(h, f)
    IN  [v |-> BigFloat(z.p), ok |-> TRUE,
         h |-> [z.h EXCEPT ![z.p] = Arith("Sub", z.h[z.p], z.h[R.n])]]

Mul(h, f) == [v |-> AplIndex(Sign(h[f.n])), ok |-> TRUE, h |-> h]

Mul2(h, f, R) ==
    LET z == cpy(h, f)
    IN  [v |-> BigFloat(z.p), ok |-> TRUE,
         h |-> [z.h EXCEPT ![z.p] = Arith("Mul", z.h[z.p], z.h[R.n])]]

\* A division that answers not-a-number whenever the dividend is zero.
Div2_ZeroIsNaN(h, f, R) ==
    IF IsInf(h[f.n]) THEN [v |-> numbersInf, ok |-> TRUE, h |-> h]
    ELSE IF IsInf(h[R.n]) THEN [v |-> numbersNaN, ok |-> TRUE, h |-> h]
    ELSE IF Sign(h[f.n]) = 0 THEN [v |-> numbersNaN, ok |-> TRUE, h |-> h]
    ELSE IF Sign(h[R.n]) = 0 THEN [v |-> numbersInf, ok |-> TRUE, h |-> h]
    ELSE LET z == cpy(h, f)
         IN  [v |-> BigFloat(z.p), ok |-> TRUE,
              h |-> [z.h EXCEPT ![z.p] = Arith("Quo", z.h[f.n], z.h[R.n])]]

Div2(h, f, R) ==
    IF IsInf(h[f.n]) THEN [v |-> numbersInf, ok |-> TRUE, h |-> h]
    ELSE IF IsInf(h[R.n]) THEN [v |-> numbersNaN, ok |-> TRUE, h |-> h]
    ELSE LET lz == Sign(h[f.n]) = 0
             rz == Sign(h[R.n]) = 0
         IN  IF lz /\ rz THEN [v |-> numbersNaN, ok |-> TRUE, h |-> h]
             ELSE IF lz
             THEN LET z == cpy(h, f)
                  IN  [v |-> BigFloat(z.p), ok |-> TRUE,
                       h |-> [z.h EXCEPT ![z.p] = SetInt64(0)]]
             ELSE IF rz THEN [v |-> numbersInf, ok |-> TRUE, h |-> h]
             ELSE LET z == cpy(h, f)
                  IN  [v |-> BigFloat(z.p), ok |-> TRUE,
                       h |-> [z.h EXCEPT
                                 ![z.p] = Arith("Quo", z.h[f.n], z.h[R.n])]]

Div(h, f) ==
    LET z == cpy(h, f)
        one == BigFloat(z.p)
    IN  Div2([z.h EXCEPT ![z.p] = SetInt64(1)], one, f)

\* The Float operands: the one the variable A is bound to and a second one.
Floats == {BigFloat(1), BigFloat(2)}

\* The numbers the two Floats are parsed from: 0, 1, 4, -1/2 and Inf.
ParsedFloats == {Fin(0), Fin(4), Fin(16), Fin(0 - 2), Infinite(1)}

InRange(h) == \A p \in DOMAIN h : IsInf(h[p]) \/ Abs(h[p].q) <= MaxQ

\* The runtime after A was bound to a Float and a second Float was parsed.
FloatInit ==
    /\ envs = << (NameA :> BigFloat(1)) >>
    /\ Origin = 1
    /\ PP = 0
    /\ stdout = <<>>
    /\ pkg = (<<"p">> :> (NameA :> AplInt(2)))
    /\ heap \in [1..2 -> ParsedFloats]
    /\ other = NewRuntime
    /\ line = <<>>
    /\ res = Result("New", <<>>, nil, nil, 0, nil, "")

\* A method has returned out.
Returns(op, f, R, out) ==
    /\ InRange(out.h)
    /\ heap' = out.h
    /\ res' = Result(op, <<>>, f, R, 0, out.v,
                     IF out.ok THEN "" ELSE "not ok")
    /\ UNCHANGED <<envs, Origin, PP, stdout, pkg, other, line>>

DoAdd(f) == Returns("Float.Add", f, nil, Add(heap, f))

DoAdd2(f, R) ==
    /\ Exact("Add", heap[f.n], heap[R.n])
    /\ Returns("Float.Add2", f, R, Add2(heap, f, R))

DoSub(f) == Returns("Float.Sub", f, nil, Sub(heap, f))

DoSub2(f, R) ==
    /\ Exact("Sub", heap[f.n], heap[R.n])
    /\ Returns("Float.Sub2", f, R, Sub2(heap, f, R))

DoMul(f) == Returns("Float.Mul", f, nil, Mul(heap, f))

DoMul2(f, R) ==
    /\ Exact("Mul", heap[f.n], heap[R.n])
    /\ Returns("Float.Mul2", f, R, Mul2(heap, f, R))

DoDiv(f) == Returns("Float.Div", f, nil, Div(heap, f))

DoDiv2(f, R) ==
    /\ (~IsInf(heap[f.n]) /\ ~IsInf(heap[R.n]) /\ Sign(heap[R.n]) # 0)
          => Exact("Quo", heap[f.n], heap[R.n])
    /\ Returns("Float.Div2", f, R, Div2(heap, f, R))

FloatNext ==
    \/ \E f \in Floats : DoAdd(f)
    \/ \E f \in Floats : \E R \in Floats : DoAdd2(f, R)
    \/ \E f \in Floats : DoSub(f)
    \/ \E f \in Floats : \E R \in Floats : DoSub2(f, R)
    \/ \E f \in Floats : DoMul(f)
    \/ \E f \in Floats : \E R \in Floats : DoMul2(f, R)
    \/ \E f \in Floats : DoDiv(f)
    \/ \E f \in Floats : \E R \in Floats : DoDiv2(f, R)

FloatSpec == FloatInit /\ [][FloatNext]_vars

----------------------------------------------------------------------------
\* Host objects (xgo package).  An xgo.Value wraps a reflect.Value: a
\* pointer to the object heap[p], the nil pointer, or the object heap[p]
\* held directly by value.  An object is a struct with its fields or an
\* int.  The struct type t has the fields I (int) and V ([]string) and the
\* method Inc on its pointer.

XgoValue(mode, p) == [kind |-> "xgo.Value", n |-> p, id |-> <<mode>>]
XgoFunction(Name) == [kind |-> "xgo.Function", n |-> 0, id |-> Name]
Strings(s) == [kind |-> "Strings", n |-> 0, id |-> s]

\* The Go values of the fields.
GoInt(n) == [go |-> "int", v |-> n]
GoStrings(s) == [go |-> "[]string", v |-> s]

StructT(i, v) ==
    [k |-> "Struct", f |-> (<<"I">> :> GoInt(i)) @@ (<<"V">> :> GoStrings(v))]
IntObject == [k |-> "Int", f |-> <<>>]

\* The outcome of a call that panics.
Panic == [kind |-> "panic", n |-> 0, id |-> <<>>]

\* unicode.ToUpper on the runes of the keys.
ToUpperRune(r) ==
    CASE r = "i" -> "I" [] r = "v" -> "V" [] r = "x" -> "X" [] OTHER -> r

\* firstrune: f, "ToUpper" or "ToLower", is applied to the first rune.
firstrune(s, f) ==
    [i \in 1..Len(s) |->
        IF i # 1 THEN s[i]
        ELSE IF f = "ToUpper" THEN ToUpperRune(s[i]) ELSE ToLowerRune(s[i])]

upper(s) == firstrune(s, "ToUpper")

\* reflect.Value.Kind
Kind(h, x) ==
    IF x.id \in {<<"ptr">>, <<"nilptr">>} THEN "Ptr" ELSE h[x.n].k

\* reflect.Value.Elem: the object a pointer points to, the zero Value for
\* the nil pointer, and a panic for a Value that is no pointer.
Elem(h, x) ==
    IF x.id = <<"ptr">> THEN [panics |-> FALSE, k |-> h[x.n].k, p |-> x.n]
    ELSE IF x.id = <<"nilptr">>
    THEN [panics |-> FALSE, k |-> "Invalid", p |-> 0]
    ELSE [panics |-> TRUE, k |-> "Invalid", p |-> 0]

\* reflect.Value.MethodByName: the methods of t belong to its pointer.
MethodByName(h, x, Name) ==
    x.id = <<"ptr">> /\ h[x.n].k = "Struct" /\ Name = <<"I", "n", "c">>

\* Convert: the APL value of a Go value.
Convert(g) == IF g.go = "int" THEN AplInt(g.v) ELSE Strings(g.v)

\* export: the Go value of the type of gt for an APL value.
export(fv, gt) ==
    IF gt = "int" /\ fv.kind = "Int" THEN [err |-> "", g |-> GoInt(fv.n)]
    ELSE IF gt = "[]string" /\ fv.kind = "Strings"
    THEN [err |-> "", g |-> GoStrings(fv.id)]
    ELSE [err |-> "cannot convert", g |-> GoInt(0)]

\* Value.Keys: the field names of a struct, nil for any other value.
ValueKeys(h, x) ==
    LET k == IF Kind(h, x) = "Ptr" THEN Elem(h, x).k ELSE h[x.n].k
    IN  IF k # "Struct" THEN nil
        ELSE [kind |-> "Keys", n |-> 0, id |-> << <<"I">>, <<"V">> >>]

\* Value.At
ValueAt(h, x, key) ==
    IF key.kind # "String" THEN nil
    ELSE LET Name == upper(key.id)
         IN  IF MethodByName(h, x, Name) THEN XgoFunction(Name)
             ELSE LET k == IF Kind(h, x) = "Ptr" THEN Elem(h, x).k
                           ELSE h[x.n].k
                      p == IF Kind(h, x) = "Ptr" THEN Elem(h, x).p ELSE x.n
                  IN  IF k # "Struct" THEN nil
                      ELSE IF Name \notin DOMAIN h[p].f THEN nil
                      ELSE Convert(h[p].f[Name])

\* Value.Set: the error ("" is nil), whether the call panics, and the heap
\* it leaves.
ValueSet(h, x, key, fv) ==
    IF key.kind # "String"
    THEN [err |-> "key must be a string", panics |-> FALSE, h |-> h]
    ELSE LET val == Elem(h, x)
         IN  IF val.panics THEN [err |-> "", panics |-> TRUE, h |-> h]
             ELSE IF val.k # "Struct"
             THEN [err |-> "not a struct: cannot set field",
                   panics |-> FALSE, h |-> h]
             ELSE IF key.id \notin DOMAIN h[val.p].f
             THEN [err |-> "field does not exist", panics |-> FALSE, h |-> h]
             ELSE LET sv == export(fv, h[val.p].f[key.id].go)
                  IN  IF sv.err # ""
                      THEN [err |-> sv.err, panics |-> FALSE, h |-> h]
                      ELSE [err |-> "", panics |-> FALSE,
                            h |-> [h EXCEPT ![val.p].f[key.id] = sv.g]]

\* The host values: pointers to the struct heap[1] and to the int heap[2],
\* the nil pointer, and the struct heap[3] and the int heap[2] by value.
Hosts ==
    {XgoValue("ptr", 1), XgoValue("ptr", 2), XgoValue("nilptr", 0),
     XgoValue("val", 3), XgoValue("val", 2)}

\* The keys: the fields and the method as written and in lower case, a
\* name that is no field, and a number.
XgoKeys ==
    {AplString(<<"I">>), AplString(<<"i">>), AplString(<<"V">>),
     AplString(<<"v">>), AplString(<<"i", "n", "c">>), AplString(<<"X">>),
     AplInt(1)}

XgoValues == {AplInt(1), AplInt(2), Strings(<<"a">>)}

\* The runtime after a t and an int were created.
XgoInit ==
    /\ envs = << <<>> >>
    /\ Origin = 1
    /\ PP = 0
    /\ stdout = <<>>
    /\ pkg = (<<"p">> :> (NameA :> AplInt(2)))
    /\ heap = <<StructT(0, <<>>), IntObject, StructT(0, <<>>)>>
    /\ other = NewRuntime
    /\ line = <<>>
    /\ res = Result("New", <<>>, nil, nil, 0, nil, "")

\* The key of the call is kept in the field name of res.
DoValueKeys(x) ==
    /\ res' = Result("xgo.Keys", nil, x, nil, 0, ValueKeys(heap, x), "")
    /\ UNCHANGED <<envs, Origin, PP, stdout, pkg, heap, other, line>>

DoValueAt(x, key) ==
    /\ res' = Result("xgo.At", key, x, nil, 0, ValueAt(heap, x, key), "")
    /\ UNCHANGED <<envs, Origin, PP, stdout, pkg, heap, other, line>>

DoValueSet(x, key, fv) ==
    /\ heap' = ValueSet(heap, x, key, fv).h
    /\ res' = Result("xgo.Set", key, x, fv, 0,
                     IF ValueSet(heap, x, key, fv).panics THEN Panic ELSE nil,
                     ValueSet(heap, x, key, fv).err)
    /\ UNCHANGED <<envs, Origin, PP, stdout, pkg, other, line>>

XgoNext ==
    \/ \E x \in Hosts : DoValueKeys(x)
    \/ \E x \in Hosts : \E key \in XgoKeys : DoValueAt(x, key)
    \/ \E x \in Hosts : \E key \in XgoKeys : \E fv \in XgoValues :
          DoValueSet(x, key, fv)

XgoSpec == XgoInit /\ [][XgoNext]_vars

----------------------------------------------------------------------------
\* Two runtimes.  The variables envs, Origin, PP, stdout and pkg are the
\* fields of the first runtime, the record other holds the fields of the
\* second one.

\* Apl.AssignEnv on the runtime a: the error and the runtime it leaves.
AssignEnvIn(a, name, v, env) ==
    LET fails(err) == [err |-> err, a |-> a]
    IN  IF ~isVarname(name).ok THEN fails("variable name is not allowed")
        ELSE IF Index(name, "arrow") # 0
        THEN fails("cannot assign to a package variable")
        ELSE IF name = QuadName
        THEN [err |-> "",
              a |-> [a EXCEPT !.stdout = Append(@, String(v) \o "\n")]]
        ELSE IF name = IOName
        THEN IF IsNumber(v) /\ ToBool(v).ok
             THEN [err |-> "",
                   a |-> [a EXCEPT !.Origin = IF ToBool(v).b THEN 1 ELSE 0]]
             ELSE fails("cannot set index origin")
        ELSE IF name = PPName
        THEN IF IsNumber(v) /\ ToIndex(v).ok /\ ToIndex(v).i >= 0
             THEN [err |-> "", a |-> [a EXCEPT !.PP = ToIndex(v).i]]
             ELSE fails("cannot set print precision")
        ELSE IF NamingLaw(v, isVarname(name).isfunc) # ""
        THEN fails(NamingLaw(v, isVarname(name).isfunc))
        ELSE LET e == IF env = 0 THEN Cur(a.envs) ELSE env
             IN  IF name = AlphaName /\ Bound(a.envs, e, AlphaName)
                 THEN [err |-> "", a |-> a]
                 ELSE [err |-> "",
                       a |-> [a EXCEPT !.envs = Store(a.envs, e, name, v)]]

\* The assignments and lookups made on each of the two runtimes.
TwoNames == {NameA, IOName, PPName}
TwoValuesFor(name) ==
    CASE name = NameA -> {AplInt(1), AplInt(2)}
      [] name = IOName -> {AplInt(0), AplInt(1)}
      [] OTHER -> {AplInt(0), AplInt(2)}

\* An assignment on the second runtime with a process-wide index origin.
DoOtherAssign_GlobalOrigin(name, v) ==
    /\ other' = AssignEnvIn(other, name, v, 0).a
    /\ Origin' = AssignEnvIn(other, name, v, 0).a.Origin
    /\ res' = Result("Other.Assign", name, nil, v, 0, nil,
                     AssignEnvIn(other, name, v, 0).err)
    /\ UNCHANGED <<envs, PP, stdout, pkg, heap, line>>

\* Apl.Assign on the second runtime.
DoOtherAssign(name, v) ==
    /\ other' = AssignEnvIn(other, name, v, 0).a
    /\ res' = Result("Other.Assign", name, nil, v, 0, nil,
                     AssignEnvIn(other, name, v, 0).err)
    /\ UNCHANGED <<envs, Origin, PP, stdout, pkg, heap, line>>

\* Apl.LookupEnv on the second runtime.
DoOtherLookup(name) ==
    /\ res' = Result("Other.LookupEnv", name, nil, nil, 0,
                     LookupEnvIn(other.envs, other.Origin, other.PP,
                                 other.pkg, name).v, "")
    /\ UNCHANGED <<envs, Origin, PP, stdout, pkg, heap, other, line>>

\* The operations of the two runtimes in any interleaving.
TwoNext ==
    \/ \E name \in TwoNames : \E v \in TwoValuesFor(name) : DoAssign(name, v)
    \/ \E name \in TwoNames : \E v \in TwoValuesFor(name) :
          DoOtherAssign(name, v)
    \/ \E name \in TwoNames : DoLookupEnv(name)
    \/ \E name \in TwoNames : DoOtherLookup(name)

TwoSpec == Init /\ [][TwoNext]_vars

----------------------------------------------------------------------------
\* Apl.Vars.

\* The runes in the order of their UTF-8 bytes, which sort.Strings compares.
RuneOrder ==
    <<"/", "1", "A", "I", "O", "P", "a", "f", "i", "o", "p", "arrow",
      "omega", "alpha", "quad">>

RuneRank(r) == CHOOSE i \in 1..Len(RuneOrder) : RuneOrder[i] = r

\* s < t for strings.
RECURSIVE Less(_, _)
Less(s, t) ==
    IF t = <<>> THEN FALSE
    ELSE IF s = <<>> THEN TRUE
    ELSE IF Head(s) # Head(t) THEN RuneRank(Head(s)) < RuneRank(Head(t))
    ELSE Less(Tail(s), Tail(t))

\* sort.Strings on a list of distinct strings.
SortStrings(S) ==
    CHOOSE l \in [1..Cardinality(S) -> S] :
        \A i, j \in 1..Cardinality(S) : i < j => Less(l[i], l[j])

StringList(l) == [kind |-> "[]string", n |-> 0, id |-> l]

\* Apl.Vars; the empty package name is <<>>.
Vars(pkgname) ==
    IF pkgname = <<>>
    THEN [v |-> StringList(SortStrings(
                    {Append(n, "/") : n \in DOMAIN pkg}
                        \cup DOMAIN envs[Cur(envs)])),
          err |-> ""]
    ELSE IF pkgname \notin DOMAIN pkg
    THEN [v |-> nil, err |-> "package is not registered"]
    ELSE [v |-> StringList(SortStrings(DOMAIN pkg[pkgname])), err |-> ""]

VarsArgs == {<<>>, <<"p">>, <<"a">>}

DoVars(pkgname) ==
    /\ res' = Result("Vars", pkgname, nil, nil, 0, Vars(pkgname).v,
                     Vars(pkgname).err)
    /\ UNCHANGED <<envs, Origin, PP, stdout, pkg, heap, other, line>>

\* Assignments of A and f, lambdas, and Vars in between.
VarsNext ==
    \/ \E name \in {NameA, NameF} : \E v \in ValuesFor(name) :
          DoAssign(name, v)
    \/ \E r \in RightArgs : LambdaCall(nil, r)
    \/ LambdaReturn
    \/ \E pkgname \in VarsArgs : DoVars(pkgname)

VarsSpec == Init /\ [][VarsNext]_vars

----------------------------------------------------------------------------
\* A line of clauses separated by the statement separator, as ParseAndEval
\* evaluates it.  The test runner hands each line of a test case to
\* ParseAndEval of a runtime made by New and compares what the runtime wrote.

MaxClauses == 3

NameP == <<"P">>

\* A clause: an expression (1), an assignment (A<-3), or an expression that
\* applies the monadic minus to an assignment (-A<-3).
Clause(kind, name, v) == [kind |-> kind, name |-> name, v |-> v]

Clauses ==
    {Clause("expr", <<>>, AplInt(n)) : n \in 1..3}
        \cup {Clause("assign", NameA, AplInt(3)),
              Clause("assign", NameP, AplInt(4)),
              Clause("assign", QuadName, AplInt(3)),
              Clause("assign", NameF, AplInt(1)),
              Clause("minus", NameA, AplInt(3))}

Lines == UNION {[1..n -> Clauses] : n \in 1..MaxClauses}

\* The clause ends with an assignment.
isAssignment(c) == c.kind = "assign"

\* fmt.Fprintln(a.stdout, v.String(a)) on the output out.
Fprintln(out, v) == Append(out, String(v) \o "\n")

\* One clause: evaluate it, and print its value unless it is an assignment.
EvalClause(c) ==
    IF c.kind = "expr"
    THEN [Unchanged("") EXCEPT !.stdout = Fprintln(stdout, c.v)]
    ELSE LET r == Assign(c.name, c.v)
         IN  IF r.err # "" \/ isAssignment(c) THEN r
             ELSE [r EXCEPT
                      !.stdout = Fprintln(r.stdout, PrimCall(2, nil, c.v))]

\* ParseAndEval(s) on a new runtime: the clauses of the line are evaluated
\* one by one.
ParseAndEval(l) ==
    /\ res.op = "New"
    /\ line' = l
    /\ res' = Result("ParseAndEval", <<>>, nil, nil, 0, nil, "")
    /\ UNCHANGED <<envs, Origin, PP, stdout, pkg, heap, other>>

\* The next clause of the line; an error ends the evaluation of the line.
DoEvalClause ==
    /\ line # <<>>
    /\ LET c == Head(line)
           out == EvalClause(c)
       IN  /\ envs' = out.envs
           /\ Origin' = out.Origin
           /\ PP' = out.PP
           /\ stdout' = out.stdout
           /\ line' = IF out.err = "" THEN Tail(line) ELSE <<>>
           /\ res' = Result("EvalClause", c.name, nil, c.v, 0, nil, out.err)
    /\ UNCHANGED <<pkg, heap, other>>

LineNext ==
    \/ \E l \in Lines : ParseAndEval(l)
    \/ DoEvalClause

\* A line that was started is evaluated to its end.
LineSpec == Init /\ [][LineNext]_vars /\ WF_vars(DoEvalClause)

----------------------------------------------------------------------------
\* A function variable that is rebound between its calls.

LateFunctions == {Fn(1), Fn(2)}
LateArgs == {AplInt(1), AplInt(2)}

LateNext ==
    \/ \E v \in LateFunctions : DoAssign(NameF, v)
    \/ \E v \in LateFunctions : \E env \in 1..MaxDepth :
          DoAssignEnv(NameF, v, env)
    \/ \E l \in LeftArgs : \E r \in LateArgs : DoFnVarCall(NameF, l, r)
    \/ \E r \in LateArgs : LambdaCall(nil, r)
    \/ LambdaReturn

LateSpec == Init /\ [][LateNext]_vars

----------------------------------------------------------------------------
\* The dyadic power of big Floats.

\* x.Cmp(y): -1, 0 or +1 as x is less than, equal to or greater than y.
Cmp(x, y) ==
    IF x.inf # y.inf THEN (IF x.inf < y.inf THEN 0 - 1 ELSE 1)
    ELSE IF x.inf # 0 THEN 0
    ELSE IF x.q < y.q THEN 0 - 1 ELSE IF x.q > y.q THEN 1 ELSE 0

\* A Float that holds a newly allocated big.Float of q quarters.
NewFloat(q) == [kind |-> "NewFloat", n |-> q, id |-> <<>>]

\* The exponents 0, 1 and 2, and the bases the power is exact on.
PowExact(x, w) ==
    /\ ~IsInf(w) /\ w.q \in {0, 4, 8}
    /\ IsInf(x) => w.q # 0
    /\ (~IsInf(x) /\ w.q = 8) => (x.q * x.q) % 4 = 0

\* The number x to the power w; a result above the largest finite number
\* is the infinity.
PowValue(x, w) ==
    IF w.q = 0 THEN Fin(4)
    ELSE IF IsInf(x) THEN Infinite(1)
    ELSE IF w.q = 4 THEN x
    ELSE IF (x.q * x.q) \div 4 > MaxQ THEN Infinite(1)
         ELSE Fin((x.q * x.q) \div 4)

\* bigfloat.Pow(z, w): the power, or a panic; what it does with a negative
\* base is left open.
bigfloatPow(x, w) ==
    IF Sign(x) < 0 THEN {[panics |-> TRUE, z |-> x],
                         [panics |-> FALSE, z |-> PowValue(x, w)]}
    ELSE {[panics |-> FALSE, z |-> PowValue(x, w)]}

\* Float.Pow2, with the outcome pow of bigfloat.Pow.
Pow2(h, f, R, pow) ==
    IF Cmp(h[f.n], h[f.n]) < 0 THEN [v |-> nil, ok |-> FALSE, h |-> h]
    ELSE IF pow.panics THEN [v |-> Panic, ok |-> FALSE, h |-> h]
    ELSE IF IsInf(pow.z) THEN [v |-> numbersInf, ok |-> TRUE, h |-> h]
    ELSE [v |-> NewFloat(pow.z.q), ok |-> TRUE, h |-> h]

DoPow2(f, R) ==
    /\ PowExact(heap[f.n], heap[R.n])
    /\ \E pow \in bigfloatPow(heap[f.n], heap[R.n]) :
          Returns("Float.Pow2", f, R, Pow2(heap, f, R, pow))

PowNext ==
    \/ FloatNext
    \/ \E f \in Floats : \E R \in Floats : DoPow2(f, R)

PowSpec == FloatInit /\ [][PowNext]_vars

----------------------------------------------------------------------------
\* Notions the properties are stated in.

SystemNames == {QuadName, IOName, PPName}

UpperFirst(name) == name # <<>> /\ name[1] \in Upper
LowerFirst(name) == name # <<>> /\ name[1] \in Lower

\* A name without package arrow that is no system name.
PlainName(name) == name \notin SystemNames /\ \A i \in 1..Len(name) : name[i] # "arrow"

\* The environments of the chain es that bind name.
Binders(es, name) == {i \in 1..Len(es) : name \in DOMAIN es[i]}

\* The innermost environment of the chain es that binds name, 0 if none.
Innermost(es, name) ==
    IF Binders(es, name) = {} THEN 0
    ELSE CHOOSE i \in Binders(es, name) : \A j \in Binders(es, name) : j <= i

\* What Lookup(name) returns in the next state.
LookupNext(name) == LookupEnvIn(envs', Origin', PP', pkg', name).v

\* The step is a call of Assign, or of Assign or AssignEnv.
AssignStep == res'.op = "Assign"
AnyAssignStep == res'.op \in {"Assign", "AssignEnv"}

\* The environment an assignment step is directed at.
StepEnv == IF res'.op = "Assign" THEN Cur(envs) ELSE res'.env

----------------------------------------------------------------------------
\* C1: in every reachable state, whatever assignments were made and
\* whether they succeeded or failed, the index origin is 0 or 1.
C1_OriginZeroOrOne == Origin \in {0, 1}

\* C1 witness: after the origin was set to 0, the assignment of 2, a number
\* that is no boolean, has failed and the origin is still 0.
C1_Witness ==
    /\ res.op = "Assign" /\ res.name = IOName /\ res.arg = AplInt(2)
    /\ res.err # "" /\ Origin = 0

\* C2 as stated: a successful Assign to a plain name writes the binding
\* into the innermost environment of the chain that already binds the name,
\* and into the current environment only when none binds it.
C2_InnermostBinderWritten ==
    [][(AssignStep /\ res'.err = "" /\ PlainName(res'.name)
            /\ res'.name # AlphaName)
        => LET t == Innermost(envs, res'.name)
           IN  envs' = Store(envs, IF t = 0 THEN Cur(envs) ELSE t,
                             res'.name, res'.arg)]_vars

\* C2 amended: a successful Assign to a plain name other than alpha writes
\* the binding into the current environment, whether or not an enclosing
\* environment binds the name, and changes no other environment.
C2_CurrentEnvWritten ==
    [][(AssignStep /\ res'.err = "" /\ PlainName(res'.name)
            /\ res'.name # AlphaName)
        => envs' = Store(envs, Cur(envs), res'.name, res'.arg)]_vars

\* C2 witness: A was assigned in a lambda's environment while the root
\* binds A; the root keeps its other value.
C2_Witness ==
    /\ res.op = "Assign" /\ res.name = NameA /\ res.err = ""
    /\ Len(envs) = 2
    /\ NameA \in DOMAIN envs[1] /\ NameA \in DOMAIN envs[2]
    /\ envs[2][NameA] = res.arg /\ envs[1][NameA] # res.arg

\* C3: a simple assignment to A in a lambda's environment leaves every
\* enclosing environment unchanged, A reads the assigned value inside the
\* lambda, and when the lambda returns A reads from the outer environment
\* what it read there before the call.
C3_OuterBindingKept ==
    [][/\ (AssignStep /\ res'.err = "" /\ res'.name = NameA /\ Len(envs) > 1)
          => /\ Len(envs') = Len(envs)
             /\ \A i \in 1..(Len(envs) - 1) : envs'[i] = envs[i]
             /\ LookupNext(NameA) = res'.arg
       /\ (res'.op = "lambda.Return")
          => LookupNext(NameA) = Walk(envs, Cur(envs) - 1, NameA).v]_vars

\* C3 witness: A is 1 in the root, and 2 was assigned to A inside a lambda.
C3_Witness ==
    /\ res.op = "Assign" /\ res.name = NameA /\ res.arg = AplInt(2)
    /\ Len(envs) = 2 /\ NameA \in DOMAIN envs[1]
    /\ envs[1][NameA] = AplInt(1) /\ Lookup(NameA) = AplInt(2)

\* C4: LookupEnv of a plain name returns the value in the innermost
\* environment of the chain that binds the name, with that environment, and
\* nil with no environment exactly when no environment binds the name.
C4_LookupInnermost ==
    (res.op = "LookupEnv" /\ PlainName(res.name))
    => LET m == Innermost(envs, res.name)
       IN  /\ m # 0 => (res.env = m /\ res.val = envs[m][res.name])
           /\ m = 0 => (res.env = 0 /\ res.val = nil)
           /\ res.val = nil => m = 0

\* C4 witness: A is bound in the root and in the lambda's environment to
\* different values, and the lookup returned the inner one.
C4_Witness ==
    /\ res.op = "LookupEnv" /\ res.name = NameA /\ Len(envs) = 2
    /\ NameA \in DOMAIN envs[1] /\ NameA \in DOMAIN envs[2]
    /\ envs[1][NameA] # envs[2][NameA]
    /\ res.val = envs[2][NameA] /\ res.env = 2

\* C5: for a name that is not a system name, assigning a Function to an
\* uppercase-first name and assigning another value to a lowercase-first
\* name both return an error.
C5_NamingLaw ==
    (res.op \in {"Assign", "AssignEnv"} /\ res.name \notin SystemNames
       /\ \/ UpperFirst(res.name) /\ IsFunction(res.arg)
          \/ LowerFirst(res.name) /\ ~IsFunction(res.arg))
    => res.err # ""

\* C5 witness: a number was assigned to f and the naming law refused it.
C5_Witness ==
    /\ res.op = "Assign" /\ res.name = NameF /\ res.arg = AplInt(1)
    /\ res.err = "only functions can be assigned to lowercase variables"

\* C6 as stated: calling a function variable whose name no environment
\* binds returns an error and no value.
C6_UndeclaredIsError ==
    (res.op = "fnVar.Call" /\ Innermost(envs, res.name) = 0)
    => (res.err # "" /\ res.val = nil)

\* C6 amended: calling a function variable whose name no environment binds
\* returns the Identifier of that name and no error.
C6_UndeclaredIsIdentifier ==
    (res.op = "fnVar.Call" /\ Innermost(envs, res.name) = 0)
    => (res.err = "" /\ res.val = Identifier(res.name))

\* C6 witness: f was called dyadically while no environment binds it.
C6_Witness ==
    /\ res.op = "fnVar.Call" /\ res.name = NameF /\ res.larg # nil
    /\ Innermost(envs, NameF) = 0 /\ res.val = Identifier(NameF)

\* C7: evaluating a value variable no environment binds returns the
\* Identifier of the same name and no error; a name assigned inside a
\* lambda that no enclosing environment binds stays unbound there, and
\* evaluates to its Identifier again once the lambda has returned.
C7_UnboundIsIdentifier ==
    [][/\ (res'.op = "numVar.Eval" /\ Innermost(envs', res'.name) = 0)
          => (res'.val = Identifier(res'.name) /\ res'.err = "")
       /\ (AssignStep /\ Len(envs) > 1)
          => \A n \in {NameA, NameF, AlphaName} :
                Walk(envs, Cur(envs) - 1, n).env = 0
                => Walk(envs', Cur(envs') - 1, n).env = 0
       /\ (res'.op = "lambda.Return")
          => \A n \in {NameA, AlphaName} :
                Walk(envs, Cur(envs) - 1, n).env = 0
                => numVarEval(n)' = [v |-> Identifier(n), err |-> ""]]_vars

\* C7 witness: A was evaluated in the root environment, which does not
\* bind it, and the Identifier A came back.
C7_Witness ==
    /\ res.op = "numVar.Eval" /\ res.name = NameA /\ Len(envs) = 1
    /\ NameA \notin DOMAIN envs[1]
    /\ res.val = Identifier(NameA) /\ res.err = ""

\* C8: an assignment of a value to alpha in an environment binds alpha
\* there if alpha is not yet bound in that environment; if it is bound
\* there, the assignment succeeds and changes nothing.  (A Function is
\* refused for alpha by the naming law before this point.)
C8_DefaultLeftArgument ==
    [][(AnyAssignStep /\ res'.name = AlphaName /\ ~IsFunction(res'.arg))
        => /\ res'.err = ""
           /\ Bound(envs, StepEnv, AlphaName) => envs' = envs
           /\ ~Bound(envs, StepEnv, AlphaName)
                => envs' = Store(envs, StepEnv, AlphaName, res'.arg)]_vars

\* C8 witness: the lambda was called with the left argument 1, the default
\* 2 was assigned to alpha, and alpha still reads 1.
C8_Witness ==
    /\ res.op = "Assign" /\ res.name = AlphaName /\ res.arg = AplInt(2)
    /\ res.err = "" /\ Len(envs) = 2 /\ Lookup(AlphaName) = AplInt(1)

\* C9: after a successful assignment of b to the index origin Lookup
\* returns the integer b, which is 0 or 1; every other step, a change of
\* the current environment included, leaves what Lookup returns for it
\* unchanged; and no environment ever binds the name of the index origin.
C9_OriginReadBack ==
    [][/\ (AnyAssignStep /\ res'.name = IOName /\ res'.err = "")
          => /\ LookupNext(IOName).kind = "Int"
             /\ LookupNext(IOName).n = res'.arg.n
             /\ res'.arg.n \in {0, 1}
       /\ ~(AnyAssignStep /\ res'.name = IOName /\ res'.err = "")
          => LookupNext(IOName) = Lookup(IOName)
       /\ \A i \in 1..Len(envs') : IOName \notin DOMAIN envs'[i]]_vars

\* C9 witness: the origin was set to 0 and is read as the integer 0 from
\* inside a lambda.
C9_Witness ==
    /\ res.op = "LookupEnv" /\ res.name = IOName /\ Len(envs) = 2
    /\ Origin = 0 /\ res.val = AplInt(0)

\* C10: after a successful Assign(name, v) for a name other than quad, the
\* index origin, the print precision and alpha, Lookup(name) from the same
\* current environment returns v, whatever was assigned to the name before.
C10_ReadAfterWrite ==
    [][(AssignStep /\ res'.err = ""
            /\ res'.name \notin SystemNames \cup {AlphaName})
        => LookupNext(res'.name) = res'.arg]_vars

\* C10 witness: 2 was assigned to A in the root environment and A reads 2.
C10_Witness ==
    /\ res.op = "Assign" /\ res.name = NameA /\ res.arg = AplInt(2)
    /\ res.err = "" /\ Len(envs) = 1 /\ Lookup(NameA) = AplInt(2)

\* C11: an assignment to quad appends the formatted value followed by one
\* newline to the output, succeeds for every value, a Function included,
\* and changes no environment, not the index origin and not the precision.
C11_QuadPrints ==
    [][(AnyAssignStep /\ res'.name = QuadName) =>
          /\ res'.err = ""
          /\ stdout' = Append(stdout, String(res'.arg) \o "\n")
          /\ envs' = envs
          /\ Origin' = Origin
          /\ PP' = PP]_vars

C11_Witness ==
    /\ res.op = "Assign"
    /\ res.name = QuadName
    /\ IsFunction(res.arg)
    /\ res.err = ""
    /\ stdout = <<String(res.arg) \o "\n">>

\* C12: for n > 0 interval returns a vector of shape <<n>> whose element at
\* the 0-based position i is Origin + i, so the result under origin 0 is
\* the result under origin 1 with every element decreased by 1.
C12_Interval ==
    (res.op = "interval" /\ res.arg.n > 0) =>
        LET n == res.arg.n
            at0 == interval([Origin |-> 0], res.arg).v
            at1 == interval([Origin |-> 1], res.arg).v
        IN  /\ Origin \in {0, 1}
            /\ res.err = ""
            /\ res.val.Dims = <<n>>
            /\ Len(res.val.Values) = n
            /\ \A i \in 0..(n - 1) : res.val.Values[i + 1] = Origin + i
            /\ at0.Dims = at1.Dims
            /\ \A i \in 1..n : at0.Values[i] = at1.Values[i] - 1

C12_Witness ==
    /\ res.op = "interval" /\ res.arg = AplIndex(2) /\ Origin = 0
    /\ res.val = IndexArray(<<0, 1>>, <<2>>)

\* C13: interval of 0 returns the empty array under either index origin:
\* no elements, shape <<0>>, rank 1.
C13_IntervalZero ==
    (res.op = "interval" /\ res.arg.n = 0) =>
        /\ res.err = ""
        /\ res.val.kind = "EmptyArray"
        /\ res.val.Values = <<>>
        /\ res.val.Dims = <<0>>
        /\ Len(res.val.Dims) = 1

C13_Witness ==
    /\ res.op = "interval" /\ res.arg = AplIndex(0) /\ Origin = 0
    /\ res.val = EmptyArray /\ ArraySize(res.val) = 0

\* C14: indexof returns an array of the shape of R; the element for an item
\* x of R is Origin + j for the least 0-based position j with L[j] equal to
\* x, and Origin + the number of elements of L if no element of L equals x.
C14_IndexOf ==
    res.op = "indexof" =>
        LET L == res.larg.Values
            R == res.arg.Values
            hits(x) == {j \in 1..Len(L) : isEqual(Apl, L[j], x)}
            least(S) == CHOOSE j \in S : \A k \in S : j <= k
        IN  /\ res.err = ""
            /\ res.val.Dims = res.arg.Dims
            /\ Len(res.val.Values) = Len(R)
            /\ \A k \in 1..Len(R) :
                  res.val.Values[k] =
                      IF hits(R[k]) = {} THEN Origin + Len(L)
                      ELSE Origin + (least(hits(R[k])) - 1)

\* C14 witness: under origin 0 the recurring item 1 is found at its first
\* position 0 and the string, which is not in L, gets 2.
C14_Witness ==
    /\ res.op = "indexof" /\ Origin = 0
    /\ res.larg = GeneralArray(<<AplInt(1), Bool(TRUE)>>, <<2>>)
    /\ res.arg = GeneralArray(<<Bool(TRUE), AplString(<<"a">>)>>, <<1, 2>>)
    /\ res.val = IndexArray(<<0, 2>>, <<1, 2>>)

\* C15: membership of an array L returns an array of the shape of L whose
\* element k is 1 iff L[k] equals an element of the ravel of R and else 0;
\* of a scalar L it returns one boolean; a scalar R counts as a one-element
\* array; the result is the same under both index origins.
C15_Membership ==
    res.op = "membership" =>
        LET L == res.larg
            R == res.arg
            ravel == IF IsArray(R) THEN R.Values ELSE <<R>>
            in(l) == \E i \in 1..Len(ravel) : isEqual(Apl, l, ravel[i])
        IN  /\ res.err = ""
            /\ IsArray(L) =>
                  /\ res.val.Dims = L.Dims
                  /\ Len(res.val.Values) = Len(L.Values)
                  /\ \A k \in 1..Len(L.Values) :
                        res.val.Values[k] = IF in(L.Values[k]) THEN 1 ELSE 0
            /\ ~IsArray(L) => res.val = Bool(in(L))
            /\ membership([Origin |-> 0], L, R)
                  = membership([Origin |-> 1], L, R)

\* C15 witness: a one-row matrix against the scalar 1 under origin 0.
C15_Witness ==
    /\ res.op = "membership" /\ Origin = 0
    /\ res.larg = GeneralArray(<<Bool(TRUE), AplInt(2)>>, <<1, 2>>)
    /\ res.arg = AplInt(1)
    /\ res.val = IndexArray(<<1, 0>>, <<1, 2>>)

\* A step of an arithmetic method of Float.
FloatStep ==
    res'.op \in {"Float.Add", "Float.Add2", "Float.Sub", "Float.Sub2",
                 "Float.Mul", "Float.Mul2", "Float.Div", "Float.Div2"}

\* C16: Div2 always returns ok; a finite non-zero dividend over zero gives
\* the infinity sentinel, zero over zero gives not-a-number, and zero over
\* a finite non-zero divisor gives a Float that is zero.
C16_DivisionNeverFails ==
    [][res'.op = "Float.Div2" =>
          LET x == heap[res'.larg.n]
              y == heap[res'.arg.n]
          IN  /\ res'.err = ""
              /\ (~IsInf(x) /\ x.q # 0 /\ y = Fin(0))
                    => res'.val = numbersInf
              /\ (x = Fin(0) /\ y = Fin(0)) => res'.val = numbersNaN
              /\ (x = Fin(0) /\ ~IsInf(y) /\ y.q # 0)
                    => /\ res'.val.kind = "Float"
                       /\ heap'[res'.val.n] = Fin(0)]_vars

\* C16 witness: a finite non-zero Float was divided by zero.
C16_Witness ==
    /\ res.op = "Float.Div2"
    /\ res.err = ""
    /\ res.val = numbersInf
    /\ ~IsInf(heap[res.larg.n]) /\ heap[res.larg.n].q # 0
    /\ heap[res.arg.n] = Fin(0)

\* C17: no arithmetic method of Float changes the number of its receiver or
\* of its argument, and the variable A, bound to an operand, reads the same
\* number after the method as before.
C17_FloatsImmutable ==
    [][FloatStep =>
          /\ heap'[res'.larg.n] = heap[res'.larg.n]
          /\ res'.arg # nil => heap'[res'.arg.n] = heap[res'.arg.n]
          /\ heap'[Lookup(NameA).n] = heap[Lookup(NameA).n]]_vars

\* C18: Div of a finite non-zero Float x returns the Float 1/x, and Div of
\* zero returns the infinity sentinel.
C18_Reciprocal ==
    [][res'.op = "Float.Div" =>
          LET x == heap[res'.larg.n]
          IN  /\ x = Fin(0) => res'.val = numbersInf
              /\ (~IsInf(x) /\ x.q # 0 /\ Exact("Quo", SetInt64(1), x))
                    => /\ res'.val.kind = "Float"
                       /\ heap'[res'.val.n] = Arith("Quo", SetInt64(1), x)]_vars

\* C19: ToScalar accepts a value iff it is not an array or an array of
\* exactly one element, of any rank; the one element replaces the array
\* before the child adapter is applied; an array of 0 or of 2 and more
\* elements is rejected and returned as it was.
C19_ToScalar ==
    res.op = "ToScalar" =>
        LET V == res.arg
            one == IsArray(V) /\ Len(V.Values) = 1
            v == IF one THEN V.Values[1] ELSE V
        IN  /\ (IsArray(V) /\ ~one) => (res.err # "" /\ res.val = V)
            /\ (~IsArray(V) \/ one) =>
                  /\ res.name = NoChild => (res.err = "" /\ res.val = v)
                  /\ res.name = IndexChild =>
                        /\ (res.err = "") = indexTo(Apl, v).ok
                        /\ res.val = indexTo(Apl, v).v

\* C19 witness: the 1 by 1 matrix of the boolean 1 became the index 1.
C19_Witness ==
    /\ res.op = "ToScalar" /\ res.name = IndexChild
    /\ res.arg = GeneralArray(<<Bool(TRUE)>>, <<1, 1>>)
    /\ res.val = AplIndex(1) /\ res.err = ""

\* C20: IsScalar rejects every array, the one-element array and the empty
\* array included, and returns it as it was; a value that is not an array
\* goes to the child adapter as it is.
C20_IsScalar ==
    res.op = "IsScalar" =>
        LET V == res.arg
        IN  /\ IsArray(V) => (res.err # "" /\ res.val = V)
            /\ ~IsArray(V) =>
                  /\ res.name = NoChild => (res.err = "" /\ res.val = V)
                  /\ res.name = IndexChild =>
                        /\ (res.err = "") = indexTo(Apl, V).ok
                        /\ res.val = indexTo(Apl, V).v

\* C20 witness: the one-element vector of 1 was rejected by IsScalar
\* without a child.
C20_Witness ==
    /\ res.op = "IsScalar" /\ res.name = NoChild
    /\ res.arg = GeneralArray(<<AplInt(1)>>, <<1>>)
    /\ res.val = res.arg /\ res.err # ""

\* C21: At and Set resolve a key in the same way: for a pointer to a struct
\* and a key for which At returns the value of a field, Set of a value of
\* the field's kind succeeds and At returns that value afterwards.
C21_SetThenAt ==
    [][(/\ res'.op = "xgo.Set"
        /\ res'.larg.id = <<"ptr">> /\ heap[res'.larg.n].k = "Struct"
        /\ res'.name.kind = "String"
        /\ ValueAt(heap, res'.larg, res'.name).kind = res'.arg.kind)
       => /\ res'.err = ""
          /\ res'.val # Panic
          /\ ValueAt(heap', res'.larg, res'.name) = res'.arg]_vars

\* C29: Set never panics: with a key that is no string, a host value that
\* is no struct (behind a pointer or held by value) or a field that does
\* not exist it returns an error and leaves the object as it was.
C29_SetNeverCrashes ==
    [][(/\ res'.op = "xgo.Set"
        /\ \/ res'.name.kind # "String"
           \/ res'.larg.id = <<"nilptr">>
           \/ res'.larg.id # <<"nilptr">> /\ heap[res'.larg.n].k # "Struct"
           \/ res'.name.id \notin {<<"I">>, <<"V">>})
       => /\ res'.val # Panic
          /\ res'.err # ""
          /\ heap' = heap]_vars

\* The first runtime as a record, and what a program can observe of a
\* runtime: its index origin, its print precision and every Lookup.
This ==
    [envs |-> envs, Origin |-> Origin, PP |-> PP, stdout |-> stdout,
     pkg |-> pkg]
Observed(a) ==
    [Origin |-> a.Origin, PP |-> a.PP,
     look |-> [name \in TwoNames \cup {NameF, PkgNameA} |->
                  LookupEnvIn(a.envs, a.Origin, a.PP, a.pkg, name).v]]

\* C22: an Assign on one runtime leaves the index origin, the print
\* precision and every Lookup of the other runtime as they were, whatever
\* the two runtimes did before.
C22_RuntimesIndependent ==
    [][/\ res'.op = "Assign" => Observed(other') = Observed(other)
       /\ res'.op = "Other.Assign" => Observed(This') = Observed(This)]_vars

\* C22 witness: the runtimes differ in origin, precision and the value of A
\* right after an assignment on the second one.
C22_Witness ==
    /\ res.op = "Other.Assign" /\ res.err = ""
    /\ Origin = 0 /\ other.Origin = 1
    /\ PP = 2 /\ other.PP = 0
    /\ Lookup(NameA) = AplInt(1)
    /\ LookupEnvIn(other.envs, other.Origin, other.PP, other.pkg, NameA).v
          = AplInt(2)

\* C23: Vars of the empty package name returns, in ascending order, the
\* registered package names with a slash and the names bound in the root
\* environment, whatever environment is current; Vars of a package that is
\* not registered returns an error and no list.
C23_VarsOfRoot ==
    res.op = "Vars" =>
        /\ res.name = <<>> =>
              /\ res.err = ""
              /\ res.val.kind = "[]string"
              /\ {res.val.id[i] : i \in 1..Len(res.val.id)}
                    = {Append(n, "/") : n \in DOMAIN pkg} \cup DOMAIN envs[1]
              /\ \A i, j \in 1..Len(res.val.id) :
                    i < j => Less(res.val.id[i], res.val.id[j])
        /\ (res.name # <<>> /\ res.name \notin DOMAIN pkg) =>
              (res.err # "" /\ res.val = nil)

\* C24: the array returned by interval, indexof or membership has as many
\* elements as the product of its shape, and its shape equals <<n>> for
\* interval, the shape of R for indexof and the shape of L for membership.
C24_ArrayInvariant ==
    (res.op \in {"interval", "indexof", "membership"} /\ res.err = ""
        /\ IsArray(res.val)) =>
        /\ Len(res.val.Values) = Product(res.val.Dims)
        /\ res.op = "interval" => res.val.Dims = <<res.arg.n>>
        /\ res.op = "indexof" => res.val.Dims = res.arg.Dims
        /\ res.op = "membership" => res.val.Dims = res.larg.Dims

\* C24 witness: indexof and a one-row matrix R of two elements.
C24_Witness ==
    /\ res.op = "indexof"
    /\ res.arg.Dims = <<1, 2>>
    /\ res.val.Dims = <<1, 2>>
    /\ Len(res.val.Values) = 2

\* The step evaluates the first clause of the line that is left.
EvalStep == line # <<>> /\ res'.op = "EvalClause"

\* C25 as stated: the clauses of a line are evaluated in order, and a clause
\* adds its result as one line to the output iff it does not end with an
\* assignment.
C25_PrintedIffNoAssignment ==
    [][EvalStep =>
        /\ line' \in {Tail(line), <<>>}
        /\ res'.err = "" => line' = Tail(line)
        /\ IF isAssignment(Head(line)) \/ res'.err # ""
           THEN stdout' = stdout
           ELSE Len(stdout') = Len(stdout) + 1]_vars

\* The value a clause yields.
ClauseValue(c) == IF c.kind = "minus" THEN PrimCall(2, nil, c.v) ELSE c.v

\* C25: the clauses of a line are evaluated in order up to the first error,
\* every line that was started is evaluated to its end, and a clause that
\* succeeds adds its result as one line to the output iff it does not end
\* with an assignment or it assigns to the quad.
C25_ClausesPrinted ==
    /\ [][EvalStep =>
            /\ line' \in {Tail(line), <<>>}
            /\ res'.err = "" => line' = Tail(line)
            /\ IF res'.err = ""
                    /\ (~isAssignment(Head(line))
                           \/ Head(line).name = QuadName)
               THEN stdout' = Append(stdout,
                                     String(ClauseValue(Head(line))) \o "\n")
               ELSE stdout' = stdout]_vars
    /\ (line # <<>>) ~> (line = <<>>)

\* C25 witness: the line 1 <> 2 <> 3 has printed 1, 2 and 3 on three lines.
C25_Witness ==
    /\ line = <<>>
    /\ res.op = "EvalClause"
    /\ stdout = <<"1\n", "2\n", "3\n">>

\* The name contains one of the runes quad, alpha, omega.
HasSpecial(name) == \E i \in 1..Len(name) : name[i] \in Special

\* C26: in every environment, a bound name that is no system name and has no
\* package arrow holds a function if it starts with a lowercase letter, and
\* a value that is no function if it starts with an uppercase letter or
\* contains quad, alpha or omega; and a call of a function variable with a
\* lowercase name never reports that its value is not a function.
C26_NamingLawInvariant ==
    /\ \A i \in 1..Len(envs) : \A name \in DOMAIN envs[i] :
          PlainName(name) =>
             /\ (LowerFirst(name) /\ ~HasSpecial(name))
                   => IsFunction(envs[i][name])
             /\ (UpperFirst(name) \/ HasSpecial(name))
                   => ~IsFunction(envs[i][name])
    /\ (res.op = "fnVar.Call" /\ LowerFirst(res.name))
          => res.err # "value in function variable is not a function"

\* C26 witness: a function variable is called while a lowercase name holds
\* a function and an uppercase name holds a number.
C26_Witness ==
    /\ res.op = "fnVar.Call"
    /\ res.name = NameF
    /\ IsFunction(Lookup(NameF))
    /\ \E i \in 1..Len(envs) :
          NameA \in DOMAIN envs[i] /\ ~IsFunction(envs[i][NameA])
    /\ res.err = ""

\* The errors of AssignEnv that the atomicity of an assignment is about.
AssignErrors ==
    {"variable name is not allowed",
     "cannot assign to a package variable",
     "cannot set index origin",
     "cannot assign a function to an uppercase variable",
     "only functions can be assigned to lowercase variables"}

\* C27: an assignment that fails because the name is not allowed, the name
\* has a package arrow, the value for the index origin is no number that
\* converts to a boolean, or the naming law is violated, leaves all
\* environments, the index origin and the output as they were.
C27_FailedAssignAtomic ==
    [][(AnyAssignStep /\ res'.err \in AssignErrors) =>
          /\ envs' = envs
          /\ Origin' = Origin
          /\ stdout' = stdout]_vars

\* C27 witness: an assignment to the index origin has failed in a state with
\* a binding, an origin of 0 and output written before.
C27_Witness ==
    /\ res.op \in {"Assign", "AssignEnv"}
    /\ res.name = IOName
    /\ res.err = "cannot set index origin"
    /\ Origin = 0
    /\ stdout # <<>>
    /\ \E i \in 1..Len(envs) : NameA \in DOMAIN envs[i]

\* The step is a call of a function variable.
CallStep == res'.op = "fnVar.Call"

\* C28: a call of a function variable applies the function that the
\* innermost environment binding the name holds at the moment of the call,
\* and yields the identifier while the name is unbound; a call that follows
\* a successful assignment to the name applies the function just assigned.
C28_LateResolution ==
    [][CallStep =>
          /\ res'.err = ""
          /\ IF Innermost(envs, res'.name) = 0
             THEN res'.val = Identifier(res'.name)
             ELSE res'.val =
                     PrimCall(envs[Innermost(envs, res'.name)][res'.name].n,
                              res'.larg, res'.arg)
          /\ (res.op = "Assign" /\ res.err = "" /\ res.name = res'.name)
                => res'.val = PrimCall(res.arg.n, res'.larg, res'.arg)]_vars

\* C28 witness: the call has applied the primitive - , which differs from
\* the primitive + on these arguments, while an outer environment still
\* binds the name to + .
C28_Witness ==
    /\ res.op = "fnVar.Call"
    /\ res.name = NameF
    /\ Lookup(NameF) = Fn(2)
    /\ NameF \in DOMAIN envs[1]
    /\ envs[1][NameF] = Fn(1)
    /\ res.val = PrimCall(2, res.larg, res.arg)
    /\ res.val # PrimCall(1, res.larg, res.arg)

\* C30: Pow2 reports not-ok and returns nil for a negative base, and
\* returns a Float or the infinity only for a base that is not negative.
C30_Pow2NegativeBase ==
    [][res'.op = "Float.Pow2" =>
          IF Sign(heap[res'.larg.n]) < 0
          THEN res'.err = "not ok" /\ res'.val = nil
          ELSE res'.err = ""
                  /\ res'.val.kind \in {"NewFloat", "numbers.Inf"}]_vars

====
